---------------------------- MODULE Spec2Model ----------------------------
(***************************************************************************)
(* A model of jgdv.structs.code_ref.JGDVCodeReference: construction from   *)
(* strings, live types and entry points, alias lookup, mixin addition,     *)
(* resolution (try_import) and the minimal-mixin computation.              *)
(*                                                                         *)
(* A Python str is a sequence of tokens; "." and ":" are tokens of their   *)
(* own, an identifier is one token.  A reference is a record; a Python     *)
(* object (class, function, module, instance) is a record too, and a class *)
(* made by type() at run time carries a serial > 0 that tells it from every*)
(* other live object.                                                      *)
(***************************************************************************)
EXTENDS Naturals, Sequences, FiniteSets

VARIABLES
    cur,    \* the reference the caller holds (the receiver of the methods)
    last    \* the last call: its arguments and what it returned or raised

vars == <<cur, last>>

---------------------------------------------------------------------------
(* Bounds *)

MaxLen == 7         \* longest string given to build in SpecParse
MaxRecs == 2        \* most records in a plugin group in SpecParse
MaxArgs == 2        \* most mixins given to one add_mixins call
MaxMixins == 2      \* longest mixin list a reference is grown to

---------------------------------------------------------------------------
(* Python str operations *)

DOT == "."
COLON == ":"

\* doot.constants.patterns.IMPORT_SEP, the default separator of a reference
IMPORT_SEP == <<COLON>>

\* doot.constants.patterns.TASK_SEP, the reserved double separator
TASK_SEP == <<COLON, COLON>>

\* StructuredName.subseparator
SUBSEP == <<DOT>>

\* needle in hay, for str
Contains(hay, needle) ==
    \E i \in 1..(Len(hay) + 1) :
        /\ i + Len(needle) - 1 <= Len(hay)
        /\ SubSeq(hay, i, i + Len(needle) - 1) = needle

RECURSIVE SplitFrom(_, _, _)
\* the segments of s from position i on, cut at every token c
SplitFrom(s, c, i) ==
    IF \A j \in i..Len(s) : s[j] # c
    THEN <<SubSeq(s, i, Len(s))>>
    ELSE LET k == CHOOSE j \in i..Len(s) :
                      /\ s[j] = c
                      /\ \A h \in i..(j - 1) : s[h] # c
         IN  <<SubSeq(s, i, k - 1)>> \o SplitFrom(s, c, k + 1)

\* s.split(c) for a one-character separator c
Split(s, c) == SplitFrom(s, c, 1)

RECURSIVE Join(_, _)
\* sep.join(parts)
Join(sep, parts) ==
    IF parts = <<>> THEN <<>>
    ELSE IF Len(parts) = 1 THEN parts[1]
    ELSE parts[1] \o sep \o Join(sep, Tail(parts))

---------------------------------------------------------------------------
(* Python objects *)

Obj(kind, name, module, bases, cls, serial) ==
    [kind |-> kind, name |-> name, module |-> module, bases |-> bases,
     cls |-> cls, serial |-> serial]

None == Obj("None", <<>>, <<>>, <<>>, <<>>, 0)

\* typing.Any, the default of try_import's ensure
Any == Obj("Any", <<"Any">>, <<"typing">>, <<>>, <<>>, 0)

\* The modules and objects the interpreter can import: package p, module p.m
\* with classes T, A, B(A), M and function f; T has a class attribute a0, an
\* instance of A.
PKG == <<"p">>
MOD == <<"p", DOT, "m">>
Object == Obj("class", <<"object">>, <<"builtins">>, <<>>, <<>>, 0)
ClsA == Obj("class", <<"A">>, MOD, <<Object>>, <<>>, 0)
ClsB == Obj("class", <<"B">>, MOD, <<ClsA>>, <<>>, 0)
ClsM == Obj("class", <<"M">>, MOD, <<Object>>, <<>>, 0)
ClsT == Obj("class", <<"T">>, MOD, <<Object>>, <<>>, 0)
FunF == Obj("function", <<"f">>, MOD, <<>>, <<>>, 0)
InstA0 == Obj("instance", <<>>, <<>>, <<>>, <<ClsA>>, 0)
ModPM == Obj("module", MOD, <<>>, <<>>, <<>>, 0)
ModP == Obj("module", PKG, <<>>, <<>>, <<>>, 0)

\* the module type() records on a class it makes inside code_ref.py
THIS_MODULE == <<"jgdv", DOT, "structs", DOT, "code_ref">>

\* importlib.import_module(name): the module, or the exception it raises
import_module(name) ==
    IF name = <<>> THEN [ok |-> FALSE, err |-> "ValueError", obj |-> None]
    ELSE IF name = PKG THEN [ok |-> TRUE, err |-> "", obj |-> ModP]
    ELSE IF name = MOD THEN [ok |-> TRUE, err |-> "", obj |-> ModPM]
    ELSE [ok |-> FALSE, err |-> "ModuleNotFoundError", obj |-> None]

\* getattr(o, name): <<the attribute>>, or <<>> for AttributeError
getattr(o, name) ==
    IF o = ModP /\ name = <<"m">> THEN <<ModPM>>
    ELSE IF o = ModPM /\ name = <<"T">> THEN <<ClsT>>
    ELSE IF o = ModPM /\ name = <<"A">> THEN <<ClsA>>
    ELSE IF o = ModPM /\ name = <<"B">> THEN <<ClsB>>
    ELSE IF o = ModPM /\ name = <<"M">> THEN <<ClsM>>
    ELSE IF o = ModPM /\ name = <<"f">> THEN <<FunF>>
    ELSE IF o = ClsT /\ name = <<"a0">> THEN <<InstA0>>
    ELSE <<>>

\* whether o has a __name__ (classes, functions and modules do)
HasName(o) == o.kind \in {"class", "function", "module"}

RECURSIVE Merge(_)
\* the merge step of the C3 linearisation on lists none of which is empty:
\* the first head that is in no tail comes next; ok is FALSE when there is none
MergeLive(live) ==
    LET good(i) == \A j \in 1..Len(live) :
                       \A k \in 2..Len(live[j]) : live[j][k] # live[i][1]
        first == CHOOSE n \in 1..Len(live) :
                     good(n) /\ \A h \in 1..(n - 1) : ~good(h)
        rest == Merge([j \in 1..Len(live) |->
                          IF live[j][1] = live[first][1]
                          THEN Tail(live[j]) ELSE live[j]])
    IN  IF live = <<>> THEN [ok |-> TRUE, seq |-> <<>>]
        ELSE IF \A i \in 1..Len(live) : ~good(i) THEN [ok |-> FALSE, seq |-> <<>>]
        ELSE [ok |-> rest.ok, seq |-> <<live[first][1]>> \o rest.seq]

\* the merge of the C3 linearisation
Merge(seqs) == MergeLive(SelectSeq(seqs, LAMBDA q : q # <<>>))

RECURSIVE Mro(_)
\* cls.mro(): the method resolution order of a class
Mro(c) ==
    IF c.bases = <<>> THEN <<c>>
    ELSE <<c>> \o Merge([i \in 1..Len(c.bases) |-> Mro(c.bases[i])]
                        \o <<c.bases>>).seq

\* type(name, bases, {}) accepts the bases: all classes, no duplicate, and a
\* consistent method resolution order
BasesOk(bases) ==
    /\ \A i \in 1..Len(bases) : bases[i].kind = "class"
    /\ \A i, j \in 1..Len(bases) : i # j => bases[i] # bases[j]
    /\ Merge([i \in 1..Len(bases) |-> Mro(bases[i])] \o <<bases>>).ok

\* isinstance(o, c) for a class c
isinstance(o, c) ==
    \/ c = Object
    \/ /\ o.kind = "instance"
       /\ \E i \in 1..Len(Mro(o.cls[1])) : Mro(o.cls[1])[i] = c

\* issubclass(o, c) for a class o
issubclass(o, c) == \E i \in 1..Len(Mro(o)) : Mro(o)[i] = c

RECURSIVE Serials(_)
\* the serials of the run-time classes an object is made of
Serials(o) ==
    (IF o.serial > 0 THEN {o.serial} ELSE {})
    \cup UNION {Serials(o.bases[i]) : i \in 1..Len(o.bases)}

\* the identity of a newly allocated object: one no live object has
Fresh(used) ==
    CHOOSE n \in 1..(Cardinality(used) + 1) :
        n \notin used /\ \A m \in 1..(n - 1) : m \in used

---------------------------------------------------------------------------
(* References *)

\* a Python argument that is None, a str or a list of str
PyNone == [t |-> "none", s |-> <<>>, l |-> <<>>]
PyStr(s) == [t |-> "str", s |-> s, l |-> <<>>]
PyList(l) == [t |-> "list", s |-> <<>>, l |-> l]

\* StructuredName's normalisation of a head or tail argument
Segments(x) ==
    IF x.t = "none" THEN <<>>
    ELSE IF x.t = "str" THEN <<x.s>>
    ELSE x.l

\* JGDVCodeReference(head, tail, _mixins=mixins, _type=type)
JGDVCodeReference(head, tail, mixins, type) ==
    [head |-> Segments(head), tail |-> Segments(tail),
     separator |-> IMPORT_SEP, mixins |-> mixins, type |-> type]

\* the module property
module(self) == Join(SUBSEP, self.head)

\* the value property
value(self) == Join(SUBSEP, self.tail)

\* __str__
Str(self) == module(self) \o self.separator \o value(self)

\* __eq__: two references are equal when they render the same
RefEq(a, b) == Str(a) = Str(b)

\* what a call returns or raises: ret is <<>> (None) or <<the reference>>
Ret(r) == [ok |-> TRUE, err |-> "", ret |-> <<r>>]
RetNone == [ok |-> TRUE, err |-> "", ret |-> <<>>]
Raise(e) == [ok |-> FALSE, err |-> e, ret |-> <<>>]

\* _from_str with the attribute path left unsplit
FromStrNoTailSplit(name) ==
    IF Contains(name, TASK_SEP) THEN Raise("DootError")
    ELSE IF Contains(name, <<COLON>>)
    THEN LET parts == Split(name, COLON)
         IN  IF Len(parts) # 2 THEN Raise("DootConfigError")
             ELSE Ret(JGDVCodeReference(PyList(Split(parts[1], DOT)),
                                        PyList(<<parts[2]>>), <<>>, None))
    ELSE Ret(JGDVCodeReference(PyNone, PyStr(name), <<>>, None))

\* _from_str
FromStr(name) ==
    IF Contains(name, TASK_SEP) THEN Raise("DootError")
    ELSE IF Contains(name, <<COLON>>)
    THEN LET parts == Split(name, COLON)
         IN  IF Len(parts) # 2 THEN Raise("DootConfigError")
             ELSE Ret(JGDVCodeReference(PyList(Split(parts[1], DOT)),
                                        PyList(Split(parts[2], DOT)), <<>>, None))
    ELSE Ret(JGDVCodeReference(PyNone, PyStr(name), <<>>, None))

\* an argument of build or add_mixins: a str, a live object, an entry point
\* (o is what its load() gives), a reference, or something else
ArgStr(s) == [t |-> "str", s |-> s, o |-> None, r |-> <<>>]
ArgObj(o) == [t |-> "obj", s |-> <<>>, o |-> o, r |-> <<>>]
ArgEntry(o) == [t |-> "entry", s |-> <<>>, o |-> o, r |-> <<>>]
ArgRef(r) == [t |-> "ref", s |-> <<>>, o |-> None, r |-> <<r>>]
ArgInt == [t |-> "int", s |-> <<>>, o |-> None, r |-> <<>>]

\* build
build(name) ==
    IF name.t = "str" THEN FromStr(name.s)
    ELSE IF name.t = "obj" /\ name.o.kind = "class"
    THEN Ret(JGDVCodeReference(PyStr(name.o.module), PyStr(name.o.name),
                               <<>>, name.o))
    ELSE IF name.t = "entry" THEN Raise("NameError")
    ELSE RetNone

\* plugins: a function from group names to sequences of [name, value] records
\* from_alias taking the last record of that name, not the first
FromAliasLast(alias, group, plugins) ==
    IF group \notin DOMAIN plugins THEN FromStr(alias)
    ELSE LET found == SelectSeq(plugins[group], LAMBDA x : x.name = alias)
         IN  IF found # <<>> THEN FromStr(found[Len(found)].value)
             ELSE FromStr(alias)

\* from_alias
from_alias(alias, group, plugins) ==
    IF group \notin DOMAIN plugins THEN FromStr(alias)
    ELSE LET found == SelectSeq(plugins[group], LAMBDA x : x.name = alias)
         IN  IF found # <<>> THEN FromStr(found[1].value)
             ELSE FromStr(alias)

---------------------------------------------------------------------------
(* add_mixins *)

\* the reference add_mixins makes of one argument, or the exception
MixinRef(mix, plugins) ==
    IF mix.t = "ref" THEN Ret(mix.r[1])
    ELSE IF mix.t = "str" /\ plugins # <<>>
    THEN from_alias(mix.s, <<"mixin">>, plugins[1])
    ELSE IF mix.t = "str" \/ (mix.t = "obj" /\ mix.o.kind = "class")
    THEN build(mix)
    ELSE Raise("TypeError")

RECURSIVE AddLoopAll(_, _, _)
\* the loop of add_mixins without the membership test
AddLoopAll(to_add, mixins, plugins) ==
    IF mixins = <<>> THEN [ok |-> TRUE, err |-> "", list |-> to_add]
    ELSE LET got == MixinRef(mixins[1], plugins)
         IN  IF ~got.ok THEN [ok |-> FALSE, err |-> got.err, list |-> to_add]
             ELSE AddLoopAll(Append(to_add, got.ret[1]), Tail(mixins), plugins)

RECURSIVE AddLoop(_, _, _)
\* the loop of add_mixins: to_add after the mixins are gone through
AddLoop(to_add, mixins, plugins) ==
    IF mixins = <<>> THEN [ok |-> TRUE, err |-> "", list |-> to_add]
    ELSE LET got == MixinRef(mixins[1], plugins)
         IN  IF ~got.ok THEN [ok |-> FALSE, err |-> got.err, list |-> to_add]
             ELSE LET ref == got.ret[1]
                      next == IF \A i \in 1..Len(to_add) : ~RefEq(to_add[i], ref)
                              THEN Append(to_add, ref) ELSE to_add
                  IN  AddLoop(next, Tail(mixins), plugins)

\* add_mixins working on self._mixins itself, not on a copy of it
AddMixinsInPlace(self, mixins, plugins) ==
    LET loop == AddLoop(self.mixins, mixins, plugins)
        grown == [self EXCEPT !.mixins = loop.list]
    IN  [ok |-> loop.ok, err |-> loop.err, self |-> grown,
         ret |-> IF loop.ok THEN <<grown>> ELSE <<>>]

\* add_mixins: self after the call, and the reference returned
add_mixins(self, mixins, plugins) ==
    LET loop == AddLoop(self.mixins, mixins, plugins)
    IN  IF ~loop.ok THEN [ok |-> FALSE, err |-> loop.err, self |-> self, ret |-> <<>>]
        ELSE [ok |-> TRUE, err |-> "", self |-> self,
              ret |-> <<[head |-> self.head, tail |-> self.tail,
                         separator |-> IMPORT_SEP, mixins |-> loop.list,
                         type |-> self.type]>>]

---------------------------------------------------------------------------
(* try_import *)

\* the exception a raised exception leaves try_import as
Handled(e) ==
    IF e \in {"ModuleNotFoundError", "AttributeError"} THEN "ImportError" ELSE e

RECURSIVE Walk(_, _)
\* the attribute path walked from curr: <<the object>>, or <<>>
Walk(curr, names) ==
    IF names = <<>> THEN <<curr>>
    ELSE LET got == getattr(curr, names[1])
         IN  IF got = <<>> THEN <<>> ELSE Walk(got[1], Tail(names))

\* the first part of try_import: the cached type, or the import and the walk
Target(self) ==
    IF self.type # None
    THEN [ok |-> TRUE, err |-> "", obj |-> self.type, imports |-> 0]
    ELSE LET mod == import_module(module(self))
         IN  IF ~mod.ok
             THEN [ok |-> FALSE, err |-> mod.err, obj |-> None, imports |-> 1]
             ELSE LET got == Walk(mod.obj, self.tail)
                  IN  IF got = <<>>
                      THEN [ok |-> FALSE, err |-> "AttributeError", obj |-> None,
                            imports |-> 1]
                      ELSE [ok |-> TRUE, err |-> "", obj |-> got[1], imports |-> 1]

\* what try_import gives: the object returned or the exception, the number of
\* import_module calls and of classes made, and the serials then in use
Out(ok, err, obj, imports, synths, used) ==
    [ok |-> ok, err |-> err, obj |-> obj, imports |-> imports,
     synths |-> synths, used |-> used]

\* the test of ensure: the exception it ends in, or "" when curr passes
EnsureCheck(curr, ensure) ==
    IF ensure = Any THEN ""
    ELSE IF isinstance(curr, ensure) THEN ""
    ELSE IF curr.kind # "class" THEN "TypeError"
    ELSE IF issubclass(curr, ensure) THEN ""
    ELSE "ImportError"

RECURSIVE try_import(_, _, _)
RECURSIVE ImportAll(_, _)

\* the results of one.obj followed by those of rest
ImportBoth(one, rest) ==
    [ok |-> rest.ok, err |-> rest.err, objs |-> <<one.obj>> \o rest.objs,
     imports |-> one.imports + rest.imports,
     synths |-> one.synths + rest.synths, used |-> rest.used]

\* the loop over the mixins after the first of them gave `one`
ImportRest(one, refs) ==
    IF ~one.ok
    THEN [ok |-> FALSE, err |-> one.err, objs |-> <<>>, imports |-> one.imports,
          synths |-> one.synths, used |-> one.used]
    ELSE ImportBoth(one, ImportAll(refs, one.used))

\* mix.try_import() for each reference of refs in turn
ImportAll(refs, used) ==
    IF refs = <<>> THEN [ok |-> TRUE, err |-> "", objs |-> <<>>, imports |-> 0,
                         synths |-> 0, used |-> used]
    ELSE ImportRest(try_import(refs[1], Any, used), Tail(refs))

\* the end of try_import: curr is tested against ensure and returned
Ensured(curr, e, imports, synths, used) ==
    IF e # "" THEN Out(FALSE, Handled(e), None, imports, synths, used)
    ELSE Out(TRUE, "", curr, imports, synths, used)

\* the class made with curr first among its bases
GeneratedTargetFirst(curr, mixins, id) ==
    Obj("class", <<"DootGenerated", COLON>> \o curr.name, THIS_MODULE,
        <<curr>> \o mixins, <<>>, id)

\* type(f"DootGenerated:{curr.__name__}", tuple(mixins + [curr]), {})
Generated(curr, mixins, id) ==
    Obj("class", <<"DootGenerated", COLON>> \o curr.name, THIS_MODULE,
        mixins \o <<curr>>, <<>>, id)

\* try_import once the mixins gave mx: the class made of them and curr
Composed(curr, ensure, imports, mx, made) ==
    IF ~mx.ok THEN Out(FALSE, Handled(mx.err), None, imports, mx.synths, mx.used)
    ELSE IF ~HasName(curr)
    THEN Out(FALSE, Handled("AttributeError"), None, imports, mx.synths, mx.used)
    ELSE IF ~BasesOk(mx.objs \o <<curr>>)
    THEN Out(FALSE, Handled("TypeError"), None, imports, mx.synths, mx.used)
    ELSE Ensured(made, EnsureCheck(made, ensure), imports, mx.synths + 1,
                 mx.used \cup {made.serial})

\* try_import once the mixins gave mx
WithMixins(curr, ensure, imports, mx) ==
    Composed(curr, ensure, imports + mx.imports, mx,
             Generated(curr, mx.objs, Fresh(mx.used)))

\* try_import once its first part gave tgt
Resolved(self, ensure, used, tgt) ==
    IF ~tgt.ok THEN Out(FALSE, Handled(tgt.err), None, tgt.imports, 0, used)
    ELSE IF self.mixins = <<>>
    THEN Ensured(tgt.obj, EnsureCheck(tgt.obj, ensure), tgt.imports, 0, used)
    ELSE WithMixins(tgt.obj, ensure, tgt.imports, ImportAll(self.mixins, used))

\* try_import(ensure), the serials in `used` being those of live objects
try_import(self, ensure, used) == Resolved(self, ensure, used, Target(self))

---------------------------------------------------------------------------
(* _calculate_minimal_mixins *)

\* x put into the sorted list front, after the members whose chain is no longer
InsertByMro(front, x) ==
    LET k == Cardinality({i \in 1..Len(front) :
                             Len(Mro(front[i])) <= Len(Mro(x))})
    IN  SubSeq(front, 1, k) \o <<x>> \o SubSeq(front, k + 1, Len(front))

RECURSIVE SortedByMro(_)
\* sorted(types, key=lambda x: len(x.mro())): ascending, and stable
SortedByMro(types) ==
    IF types = <<>> THEN <<>>
    ELSE InsertByMro(SortedByMro(SubSeq(types, 1, Len(types) - 1)),
                     types[Len(types)])

\* reversed(s)
Reversed(s) == [i \in 1..Len(s) |-> s[Len(s) + 1 - i]]

\* the members of a list, as a set
Members(s) == {s[i] : i \in 1..Len(s)}

RECURSIVE SelectMinimal(_, _)
\* the loop of _calculate_minimal_mixins: minimal_mixins after the types in
\* `order` are gone through, `found` holding the ancestors met so far
SelectMinimal(order, found) ==
    IF order = <<>> THEN <<>>
    ELSE IF order[1] \in found THEN SelectMinimal(Tail(order), found)
    ELSE <<order[1]>>
         \o SelectMinimal(Tail(order), found \cup Members(Mro(order[1])))

\* what _calculate_minimal_mixins gives: the references returned or the
\* exception, the types the mixins resolved to, the order they were visited
\* in and the types kept
MinOut(ok, err, refs, resolved, order, chosen) ==
    [ok |-> ok, err |-> err, refs |-> refs, resolved |-> resolved,
     order |-> order, chosen |-> chosen]

\* the return of _calculate_minimal_mixins: a reference built of each type kept
MinimalRefs(resolved, order, chosen) ==
    MinOut(TRUE, "", [i \in 1..Len(chosen) |-> build(ArgObj(chosen[i])).ret[1]],
           resolved, order, chosen)

\* the loop of _calculate_minimal_mixins over the types in `order`
MinimalIn(resolved, order) ==
    MinimalRefs(resolved, order, SelectMinimal(order, {}))

\* the types visited shortest chain first
MinimalAscending(got) ==
    IF ~got.ok THEN MinOut(FALSE, got.err, <<>>, <<>>, <<>>, <<>>)
    ELSE IF \E i \in 1..Len(got.objs) : got.objs[i].kind # "class"
    THEN MinOut(FALSE, "AttributeError", <<>>, got.objs, <<>>, <<>>)
    ELSE MinimalIn(got.objs, SortedByMro(got.objs))

\* _calculate_minimal_mixins once the mixins resolved to got: the types are
\* visited longest chain first
MinimalOf(got) ==
    IF ~got.ok THEN MinOut(FALSE, got.err, <<>>, <<>>, <<>>, <<>>)
    ELSE IF \E i \in 1..Len(got.objs) : got.objs[i].kind # "class"
    THEN MinOut(FALSE, "AttributeError", <<>>, got.objs, <<>>, <<>>)
    ELSE MinimalIn(got.objs, Reversed(SortedByMro(got.objs)))

\* _calculate_minimal_mixins
calculate_minimal_mixins(self, used) == MinimalOf(ImportAll(self.mixins, used))

---------------------------------------------------------------------------
(* to_aliases *)

\* the alias of a reference in a group: the name of the first record of the
\* group whose value is the rendered reference, and else the rendered reference
AliasOf(self, group, plugins) ==
    LET found == SelectSeq(plugins[group], LAMBDA x : x.value = Str(self))
    IN  IF found # <<>> THEN found[1].name ELSE Str(self)

\* what to_aliases returns or raises
AliasOut(ok, err, base, aliases) ==
    [ok |-> ok, err |-> err, base |-> base, aliases |-> aliases]

\* to_aliases once the minimal mixins are calculated
AliasesOf(min, self, group, plugins) ==
    IF ~min.ok THEN AliasOut(FALSE, min.err, <<>>, <<>>)
    ELSE AliasOut(TRUE, "", AliasOf(self, group, plugins),
                  [i \in 1..Len(min.refs) |->
                      AliasOf(min.refs[i], <<"mixins">>, plugins)])

\* to_aliases: the alias of the reference in the group, and the aliases of its
\* minimal mixins in the group "mixins"
to_aliases(self, group, plugins, used) ==
    IF group # <<"mixins">>
    THEN AliasesOf(calculate_minimal_mixins(self, used), self, group, plugins)
    ELSE AliasOut(TRUE, "", AliasOf(self, group, plugins), <<>>)

---------------------------------------------------------------------------
(* The inputs of the calls *)

\* "p.m:" followed by an attribute path
InMod(path) == MOD \o <<COLON>> \o path

\* the names build is given: good and bad strings, live objects, an entry point
BuildInputs ==
    {ArgStr(InMod(<<"T">>)), ArgStr(InMod(<<"f">>)),
     ArgStr(InMod(<<"T", DOT, "a0">>)), ArgStr(InMod(<<"Z">>)),
     ArgStr(<<"q", COLON, "T">>), ArgStr(<<"T">>),
     ArgStr(MOD \o TASK_SEP \o <<"T">>), ArgStr(<<"p", COLON, "m", COLON, "T">>),
     ArgObj(ClsT), ArgObj(FunF), ArgEntry(ClsT)}

\* the plugin tables: one with a group "mixin", one with a group "mixins",
\* each holding the record mixA = "p.m:A"; the second has a group "other" too,
\* holding the record tee = "p.m:T"
RecMixA == [name |-> <<"mixA">>, value |-> InMod(<<"A">>)]
RecTee == [name |-> <<"tee">>, value |-> InMod(<<"T">>)]
PluginsMixin == [g \in {<<"mixin">>} |-> <<RecMixA>>]
PluginsMixins ==
    [g \in {<<"mixins">>, <<"other">>} |->
        IF g = <<"mixins">> THEN <<RecMixA>> ELSE <<RecTee>>]

\* the plugins argument of add_mixins: None, or a table
PluginsInputs == {<<>>, <<PluginsMixin>>, <<PluginsMixins>>}

\* a reference that has a mixin of its own: p.m:M with the mixin A
RefMA == add_mixins(build(ArgStr(InMod(<<"M">>))).ret[1],
                    <<ArgObj(ClsA)>>, <<>>).ret[1]

\* the mixins add_mixins is given: the class A as a str, a live type and an
\* alias, the class B, a reference with a mixin, and an int
MixinInputs ==
    {ArgStr(InMod(<<"A">>)), ArgObj(ClsA), ArgStr(<<"mixA">>),
     ArgStr(InMod(<<"B">>)), ArgRef(RefMA), ArgInt}

\* the sequences of at most n members of S
SeqsUpTo(S, n) == UNION {[1..k -> S] : k \in 0..n}

\* the ensure argument of try_import
EnsureInputs == {Any, ClsA, ClsT, Object}

\* the strings of SpecParse: every string of at most MaxLen of these tokens
Alphabet == {"p", "T", DOT, COLON}
AllStrings == SeqsUpTo(Alphabet, MaxLen)

\* the plugin tables of SpecParse: no group, or a group "mixins" of at most
\* MaxRecs records
AliasNames == {<<"foo">>, <<"bar">>}
AliasValues == {InMod(<<"A">>), <<"p", COLON, "T">>, <<"p", COLON, COLON, "T">>}
AliasRecords == [name : AliasNames, value : AliasValues]
AliasTables ==
    {[g \in {} |-> <<>>]}
    \cup {[g \in {<<"mixins">>} |-> recs] : recs \in SeqsUpTo(AliasRecords, MaxRecs)}

---------------------------------------------------------------------------
(* The calls a caller makes *)

\* the record of a call, before its fields are filled in
NoCall ==
    [op |-> "none", name |-> ArgInt, alias |-> <<>>, group |-> <<>>,
     plugins |-> <<>>, mixins |-> <<>>, ensure |-> Any, self |-> <<>>,
     ok |-> TRUE, err |-> "", ret |-> <<>>, obj |-> None,
     imports |-> 0, synths |-> 0,
     refs |-> <<>>, resolved |-> <<>>, order |-> <<>>, chosen |-> <<>>,
     base |-> <<>>, aliases |-> <<>>]

\* the serials of the run-time classes the caller still holds
LiveSerials ==
    Serials(last.obj)
    \cup UNION {Serials(last.resolved[i]) : i \in 1..Len(last.resolved)}

Init ==
    /\ cur = <<>>
    /\ last = NoCall

\* the caller holds no result of a call: a call that makes a reference is
\* made once the result of the call before is kept or dropped
Idle == last = NoCall

\* the caller holds nothing, or what a resolution gave: a resolution is made
\* then, so that the objects of the one before are still live
CanResolve == Idle \/ last.op \in {"try_import", "minimal"}

\* last after JGDVCodeReference.build(name)
Built(name, r) ==
    [NoCall EXCEPT !.op = "build", !.name = name,
                   !.ok = r.ok, !.err = r.err, !.ret = r.ret]

\* last after JGDVCodeReference.from_alias(alias, group, plugins)
Aliased(alias, group, plugins, r) ==
    [NoCall EXCEPT !.op = "from_alias", !.alias = alias, !.group = group,
                   !.plugins = <<plugins>>,
                   !.ok = r.ok, !.err = r.err, !.ret = r.ret]

\* JGDVCodeReference.build(name)
Build ==
    /\ Idle
    /\ \E name \in BuildInputs : last' = Built(name, build(name))
    /\ UNCHANGED cur

\* JGDVCodeReference.from_alias(alias, group, plugins)
FromAlias ==
    /\ Idle
    /\ \E alias \in {<<"mixA">>, InMod(<<"T">>)},
          group \in {<<"mixin">>, <<"mixins">>},
          plugins \in {PluginsMixin, PluginsMixins} :
        last' = Aliased(alias, group, plugins, from_alias(alias, group, plugins))
    /\ UNCHANGED cur

\* the caller keeps the reference the last call returned
Adopt ==
    /\ last.op \in {"build", "from_alias", "add_mixins"}
    /\ last.ok
    /\ last.ret # <<>>
    /\ cur' = last.ret
    /\ last' = NoCall

\* the caller drops the result of the last call
Drop ==
    /\ ~Idle
    /\ last' = NoCall
    /\ UNCHANGED cur

\* last after self.add_mixins(*mixins, plugins=plugins)
Mixed(self, mixins, plugins, r) ==
    [NoCall EXCEPT !.op = "add_mixins", !.mixins = mixins, !.plugins = plugins,
                   !.self = <<self>>, !.ok = r.ok, !.err = r.err, !.ret = r.ret]

\* cur.add_mixins(*mixins, plugins=plugins)
AddMixins ==
    /\ Idle
    /\ cur # <<>>
    /\ \E mixins \in SeqsUpTo(MixinInputs, MaxArgs), plugins \in PluginsInputs :
        /\ \A i \in 1..Len(add_mixins(cur[1], mixins, plugins).ret) :
               Len(add_mixins(cur[1], mixins, plugins).ret[i].mixins) <= MaxMixins
        /\ cur' = <<add_mixins(cur[1], mixins, plugins).self>>
        /\ last' = Mixed(cur[1], mixins, plugins,
                         add_mixins(cur[1], mixins, plugins))

\* last after self.try_import(ensure)
Imported(self, ensure, r) ==
    [NoCall EXCEPT !.op = "try_import", !.ensure = ensure, !.self = <<self>>,
                   !.ok = r.ok, !.err = r.err, !.obj = r.obj,
                   !.imports = r.imports, !.synths = r.synths]

\* cur.try_import(ensure)
TryImport ==
    /\ CanResolve
    /\ cur # <<>>
    /\ \E ensure \in EnsureInputs :
        last' = Imported(cur[1], ensure, try_import(cur[1], ensure, LiveSerials))
    /\ UNCHANGED cur

\* last after self._calculate_minimal_mixins(plugins)
Minimised(self, r) ==
    [NoCall EXCEPT !.op = "minimal", !.self = <<self>>,
                   !.ok = r.ok, !.err = r.err, !.refs = r.refs,
                   !.resolved = r.resolved, !.order = r.order,
                   !.chosen = r.chosen]

\* cur._calculate_minimal_mixins(plugins)
CalculateMinimalMixins ==
    /\ CanResolve
    /\ cur # <<>>
    /\ last' = Minimised(cur[1], calculate_minimal_mixins(cur[1], LiveSerials))
    /\ UNCHANGED cur

\* last after self.add_mixins(*mixins, plugins=plugins).to_aliases(group,
\* plugins): the call of add_mixins stays on record
Aliases(group, r) ==
    [last EXCEPT !.op = "to_aliases", !.group = group,
                 !.ok = r.ok, !.err = r.err,
                 !.base = r.base, !.aliases = r.aliases]

\* to_aliases(group, plugins) on the reference add_mixins returned, with the
\* plugin table add_mixins was given; the table holds the group asked for and
\* the group "mixins", the two that to_aliases indexes it by
ToAliases ==
    /\ last.op = "add_mixins"
    /\ last.ok
    /\ last.plugins # <<>>
    /\ \E group \in {<<"mixins">>, <<"other">>} :
        /\ {group, <<"mixins">>} \subseteq DOMAIN last.plugins[1]
        /\ last' = Aliases(group, to_aliases(last.ret[1], group,
                                            last.plugins[1], LiveSerials))
    /\ UNCHANGED cur

Next ==
    \/ Build
    \/ FromAlias
    \/ Adopt
    \/ Drop
    \/ AddMixins
    \/ TryImport
    \/ CalculateMinimalMixins
    \/ ToAliases

Spec == Init /\ [][Next]_vars

---------------------------------------------------------------------------
(* build and from_alias as functions: every string and every plugin table  *)
(* within the bounds is an input, and the call is applied to it            *)

\* the call asked for: build(name) or from_alias(alias, group, plugins)
AskBuild(name) == [NoCall EXCEPT !.op = "ask_build", !.name = name]
AskAlias(alias, group, plugins) ==
    [NoCall EXCEPT !.op = "ask_alias", !.alias = alias, !.group = group,
                   !.plugins = <<plugins>>]

InitParse ==
    /\ cur = <<>>
    /\ last \in {AskBuild(ArgStr(s)) : s \in AllStrings}
                \cup {AskAlias(alias, group, plugins) :
                         alias \in AliasNames \cup {<<"p", COLON, "T">>},
                         group \in {<<"mixins">>, <<"other">>},
                         plugins \in AliasTables}

ParseStr ==
    /\ last.op = "ask_build"
    /\ last' = Built(last.name, build(last.name))
    /\ UNCHANGED cur

ParseAlias ==
    /\ last.op = "ask_alias"
    /\ last' = Aliased(last.alias, last.group, last.plugins[1],
                       from_alias(last.alias, last.group, last.plugins[1]))
    /\ UNCHANGED cur

NextParse ==
    \/ ParseStr
    \/ ParseAlias

SpecParse == InitParse /\ [][NextParse]_vars

---------------------------------------------------------------------------
(* jgdv.decorators.util: prepare_expansion                                 *)

\* the number of keys one prepare_expansion is given, and of call arguments
MaxKeys == 2

\* the names bound in the module jgdv.decorators.util: what it imports, what
\* it assigns and what it defines; a name read that is not among them raises
\* NameError
ModuleNames ==
    {"annotations", "logmod", "Enum", "wraps", "TYPE_CHECKING", "Any",
     "Callable", "ClassVar", "Dict", "Generic", "Iterable", "Iterator",
     "List", "Mapping", "Match", "MutableMapping", "Optional", "ParamSpec",
     "Sequence", "Set", "Tuple", "TypeAlias", "TypeVar", "Union", "cast",
     "logging", "T", "P", "JGDV_ANNOTATIONS", "KEYS_HANDLED", "ORIG_ARGS",
     "KEY_ANNOTS", "FUNC_WRAPPED", "PARAM_PREFIX", "PARAM_SUFFIX",
     "ForceListArgDecorator", "cache", "invalidate_cache", "HandleSignal",
     "factory", "DecorationUtils"}

\* the name is bound when the module's code reads it
Bound(name) == name \in ModuleNames

PARAM_PREFIX == "_"
PARAM_SUFFIX == "_ex"
KEYS_HANDLED == "_jgdv_keys_handler"

\* an action: the function written (its parameters, its declared keys, its
\* annotations) and the number of expanders wrapped around it
Action(params, keys, annots, wrappers) ==
    [params |-> params, keys |-> keys, annots |-> annots, wrappers |-> wrappers]

\* has_annotations(fn, key) on the unwrapped function
has_annotations(fn, key) == key \in fn.annots

\* annotate(fn, {key})
annotate(fn, key) == [fn EXCEPT !.annots = @ \cup {key}]

\* the smaller of two numbers: zip stops at the shorter list
Min(a, b) == IF a <= b THEN a ELSE b

\* the pairs of the tail loop of verify_signature that are compared: the
\* parameter has neither the prefix nor the suffix
Compared(params, tail) ==
    {i \in 1..Min(Len(params), Len(tail)) :
        LET x == params[Len(params) + 1 - i]
        IN  ~(x[1] = PARAM_PREFIX \/ x[Len(x)] = PARAM_SUFFIX)}

\* verify_signature: "True", "False", or the exception it raises
verify_signature(params, head, tail) ==
    IF \E i \in 1..Min(Len(params), Len(head)) : params[i] # head[i]
    THEN "False"
    ELSE IF Compared(params, tail) # {} /\ ~Bound("keyword")
    THEN "NameError"
    ELSE IF \E i \in Compared(params, tail) :
                params[Len(params) + 1 - i] # tail[Len(tail) + 1 - i]
    THEN "False"
    ELSE "True"

\* the function has a parameter self
HasSelf(params) == \E i \in 1..Len(params) : params[i] = <<"self">>

\* verify_action_signature
verify_action_signature(params, args) ==
    verify_signature(params,
                     IF HasSelf(params)
                     THEN <<<<"self">>, <<"spec">>, <<"state">>>>
                     ELSE <<<<"spec">>, <<"state">>>>,
                     args)

\* what a step of prepare_expansion leaves: the action, and the exception
Step(ok, err, act) == [ok |-> ok, err |-> err, act |-> act]

\* _update_key_annotations: the keys are set before they are verified
update_key_annotations(fn, keys) ==
    IF ~Bound("inspect") THEN Step(FALSE, "NameError", fn)
    ELSE LET set == [fn EXCEPT !.keys = keys \o fn.keys]
             good == verify_action_signature(fn.params, keys \o fn.keys)
         IN  IF good = "True" THEN Step(TRUE, "", set)
             ELSE IF good = "NameError" THEN Step(FALSE, "NameError", set)
             ELSE IF ~Bound("doot") THEN Step(FALSE, "NameError", set)
             ELSE Step(FALSE, "DootKeyError", set)

\* add_method_expander, add_fn_expander: one more wrapper
add_expander(fn) ==
    IF ~Bound("ftz") THEN Step(FALSE, "NameError", fn)
    ELSE Step(TRUE, "", [fn EXCEPT !.wrappers = @ + 1])

\* prepare_expansion once the keys are updated, for a function not yet handled
Prepared(upd) ==
    IF ~upd.ok THEN upd ELSE add_expander(annotate(upd.act, KEYS_HANDLED))

\* prepare_expansion(keys, fn)
prepare_expansion(keys, fn) ==
    IF ~Bound("inspect") THEN Step(FALSE, "NameError", fn)
    ELSE IF has_annotations(fn, KEYS_HANDLED)
    THEN update_key_annotations(fn, keys)
    ELSE Prepared(update_key_annotations(fn, keys))

\* the value a key expands to
Expanded(key) == <<"value of">> \o key

\* what a call of the action leaves: the arguments the function written was
\* called with after spec and state, as many times as it was called
Call(ok, err, passed) == [ok |-> ok, err |-> err, passed |-> passed]

\* the expander: it expands the declared keys against the state, and calls
\* the function with the call arguments and then the expansions
Expander(fn, state, call_args) ==
    IF \E i \in 1..Len(fn.keys) : fn.keys[i] \notin state
    THEN IF Bound("printer") THEN Call(TRUE, "", <<>>)
         ELSE Call(FALSE, "NameError", <<>>)
    ELSE Call(TRUE, "",
              <<call_args \o [i \in 1..Len(fn.keys) |-> Expanded(fn.keys[i])]>>)

\* action(spec, state, *call_args)
call(fn, state, call_args) ==
    IF fn.wrappers = 0 THEN Call(TRUE, "", <<call_args>>)
    ELSE Expander(fn, state, call_args)

\* the keys, and the functions written: with and without self, their last
\* parameters named after keys
Keys == {<<"x">>, <<"y">>, <<"z">>}
Functions ==
    {Action(head \o tail, <<>>, {}, 0) :
        head \in {<<<<"spec">>, <<"state">>>>,
                  <<<<"self">>, <<"spec">>, <<"state">>>>},
        tail \in {<<<<"x">>, <<"y">>, <<"z">>>>, <<<<"y">>, <<"z">>>>,
                  <<<<"_", "a">>, <<"b", "_ex">>>>}}

\* last after prepare_expansion(keys, fn): fn is the action before the call
PreparedCall(keys, fn, r) ==
    [NoCall EXCEPT !.op = "prepare_expansion", !.mixins = keys,
                   !.self = <<fn>>, !.ok = r.ok, !.err = r.err]

\* last after action(spec, state, *call_args)
Called(state, call_args, r) ==
    [NoCall EXCEPT !.op = "call", !.name = state, !.mixins = call_args,
                   !.ok = r.ok, !.err = r.err, !.ret = r.passed]

InitExpand ==
    /\ cur \in Functions
    /\ last = NoCall

\* cur = prepare_expansion(keys, cur); when it raises, the caller keeps the
\* action it had, whose function has what was set on it before the raise
PrepareExpansion ==
    /\ Len(cur.keys) <= MaxKeys + 1
    /\ \E keys \in SeqsUpTo(Keys, MaxKeys) :
        /\ cur' = prepare_expansion(keys, cur).act
        /\ last' = PreparedCall(keys, cur, prepare_expansion(keys, cur))

\* cur(spec, state, *call_args)
CallAction ==
    /\ \E state \in SUBSET Keys, call_args \in SeqsUpTo({<<"c">>}, MaxKeys) :
        last' = Called(state, call_args, call(cur, state, call_args))
    /\ UNCHANGED cur

NextExpand ==
    \/ PrepareExpansion
    \/ CallAction

SpecExpand == InitExpand /\ [][NextExpand]_vars

---------------------------------------------------------------------------
(* jgdv.decorators.util: cache and invalidate_cache                        *)

\* the values the object's field takes are 0..MaxVal
MaxVal == 2

\* the suffix of the attribute names the two decorators make
CACHED_VAL == "__cached_val"

\* cache: the attribute the cached value of the method named f is kept at
cache_key(f) == f \o <<DOT, CACHED_VAL>>

\* invalidate_cache: the attribute the invalidating method named f resets
invalidate_key(f) == f \o <<CACHED_VAL>>

\* an object: its field x, and its other attributes, a function from
\* attribute names to values; a value is <<v>>, and None is <<>>
Instance(x, dict) == [x |-> x, dict |-> dict]

\* hasattr(self, key), getattr(self, key), object.__setattr__(self, key, val)
hasattr(self, key) == key \in DOMAIN self.dict
getattr_of(self, key) == self.dict[key]
setattr(self, key, val) ==
    [self EXCEPT !.dict = [k \in DOMAIN self.dict \cup {key} |->
                              IF k = key THEN val ELSE self.dict[k]]]

\* the body of a cached method: it returns the field x
Body(self) == <<self.x>>

\* what a call of a method leaves: the object, the value returned and the
\* number of times the decorated body ran
Done(self, ret, runs) == [self |-> self, ret |-> ret, runs |-> runs]

\* the method named f under @cache, called on self
cache(f, self) ==
    IF hasattr(self, cache_key(f))
    THEN Done(self, getattr_of(self, cache_key(f)), 0)
    ELSE Done(setattr(self, cache_key(f), Body(self)),
              getattr_of(setattr(self, cache_key(f), Body(self)), cache_key(f)),
              1)

\* the body of the invalidating method: it gives the field x a value
Assign(self, v) == [self EXCEPT !.x = v]

\* the method named f under @invalidate_cache, called on self with v
invalidate_cache(f, self, v) ==
    IF hasattr(self, invalidate_key(f))
    THEN Done(Assign(setattr(self, invalidate_key(f), <<>>), v), <<>>, 1)
    ELSE Done(Assign(self, v), <<>>, 1)

\* the methods of the class: two under @cache, one under @invalidate_cache
CachedNames == {<<"g">>, <<"h">>}
InvalidatorName == <<"reset">>

\* the object when made: no attribute but x, or an attribute of its own under
\* the name the invalidating method resets
NoAttrs == [k \in {} |-> <<>>]
OwnAttrs == [k \in {invalidate_key(InvalidatorName)} |-> <<0>>]

\* last after self.f(): the cached method called, what it returned, and the
\* number of times its body ran
CachedCall(f, r) ==
    [NoCall EXCEPT !.op = "cached", !.name = f, !.ret = r.ret,
                   !.imports = r.runs]

\* last after self.reset(v)
InvalidatedCall(f, v) ==
    [NoCall EXCEPT !.op = "invalidate", !.name = f, !.mixins = <<v>>]

InitCache ==
    /\ cur \in {Instance(x, d) : x \in 0..MaxVal, d \in {NoAttrs, OwnAttrs}}
    /\ last = NoCall

\* cur.g() or cur.h()
CallCached ==
    \E f \in CachedNames :
        /\ cur' = cache(f, cur).self
        /\ last' = CachedCall(f, cache(f, cur))

\* cur.reset(v)
CallInvalidate ==
    \E v \in 0..MaxVal :
        /\ cur' = invalidate_cache(InvalidatorName, cur, v).self
        /\ last' = InvalidatedCall(InvalidatorName, v)

NextCache ==
    \/ CallCached
    \/ CallInvalidate

SpecCache == InitCache /\ [][NextCache]_vars

---------------------------------------------------------------------------
(* Properties *)

\* the receiver of the last call, and the reference it returned
Self == last.self[1]
Returned == last.ret[1]

\* the last call was build of a str
BuiltOfStr == last.op = "build" /\ last.name.t = "str"

\* the places of the colons of a str
Colons(s) == {i \in 1..Len(s) : s[i] = COLON}

\* no segment of a path holds a separator
Unsplittable(path) ==
    \A i \in 1..Len(path) : \A k \in 1..Len(path[i]) : path[i][k] \notin {DOT, COLON}

\* C1: once try_import has succeeded on a reference, the next try_import on
\* it returns the identical object and does no import and makes no class.
C1_SecondImportCached ==
    [][(/\ last.op = "try_import" /\ last.ok
        /\ last'.op = "try_import" /\ last'.ok
        /\ last'.self = last.self)
       => (/\ last'.obj = last.obj
           /\ last'.imports = 0
           /\ last'.synths = 0)]_vars

\* C2: a string with exactly one colon builds a reference whose module path
\* is the part before the colon cut at the dots, whose attribute path is the
\* part after it cut at the dots, and which renders as the string.
C2_SingleColonRoundTrip ==
    (BuiltOfStr /\ Cardinality(Colons(last.name.s)) = 1) =>
        /\ last.ok
        /\ last.ret # <<>>
        /\ \A k \in Colons(last.name.s) :
            /\ Join(<<DOT>>, Returned.head) = SubSeq(last.name.s, 1, k - 1)
            /\ Join(<<DOT>>, Returned.tail)
                   = SubSeq(last.name.s, k + 1, Len(last.name.s))
        /\ Returned.head # <<>> /\ Unsplittable(Returned.head)
        /\ Returned.tail # <<>> /\ Unsplittable(Returned.tail)
        /\ Returned.mixins = <<>>
        /\ Str(Returned) = last.name.s

C2_Witness ==
    /\ BuiltOfStr
    /\ last.name.s = <<"p", DOT, "T", COLON, "T", DOT, "p">>
    /\ last.ok
    /\ Returned.head = <<<<"p">>, <<"T">>>>
    /\ Returned.tail = <<<<"T">>, <<"p">>>>

\* C3: a string that holds the double separator builds no reference: build
\* fails with the configuration error.
C3_DoubleSeparatorConfigError ==
    (BuiltOfStr /\ Contains(last.name.s, TASK_SEP)) =>
        /\ ~last.ok
        /\ last.err = "DootConfigError"
        /\ last.ret = <<>>

\* the mixins of a reference render differently from one another
NoDuplicateMixins(r) ==
    \A i, j \in 1..Len(r.mixins) :
        i # j => Str(r.mixins[i]) # Str(r.mixins[j])

\* the rendered reference a mixin argument names: a reference renders as
\* itself, a live type as module:name, a str as the value of its alias in the
\* "mixin" group when there is one, and else as itself
NamedStr(s) == IF Colons(s) = {} THEN <<COLON>> \o s ELSE s
Named(mix, plugins) ==
    IF mix.t = "ref" THEN Str(mix.r[1])
    ELSE IF mix.t = "obj" THEN mix.o.module \o <<COLON>> \o mix.o.name
    ELSE IF /\ plugins # <<>>
            /\ <<"mixin">> \in DOMAIN plugins[1]
            /\ \E i \in 1..Len(plugins[1][<<"mixin">>]) :
                   plugins[1][<<"mixin">>][i].name = mix.s
    THEN NamedStr(plugins[1][<<"mixin">>][
             CHOOSE i \in 1..Len(plugins[1][<<"mixin">>]) :
                 /\ plugins[1][<<"mixin">>][i].name = mix.s
                 /\ \A h \in 1..(i - 1) : plugins[1][<<"mixin">>][h].name # mix.s
         ].value)
    ELSE NamedStr(mix.s)

\* the last call was add_mixins, and it returned
MixedOk == last.op = "add_mixins" /\ last.ok

\* every mixin given to the last add_mixins was on the receiver already
AllPresent ==
    /\ last.mixins # <<>>
    /\ \A i \in 1..Len(last.mixins) :
           \E j \in 1..Len(Self.mixins) :
               Str(Self.mixins[j]) = Named(last.mixins[i], last.plugins)

\* C4: no reference made by build and add_mixins has two mixins that render
\* the same, and add_mixins of mixins all present already leaves the list as
\* long as it was.
C4_MixinsUnique ==
    /\ \A i \in 1..Len(cur) : NoDuplicateMixins(cur[i])
    /\ \A i \in 1..Len(last.ret) : NoDuplicateMixins(last.ret[i])
    /\ (MixedOk /\ AllPresent) => Len(Returned.mixins) = Len(Self.mixins)

C4_Witness ==
    /\ MixedOk
    /\ AllPresent
    /\ Len(Self.mixins) = 1
    /\ last.mixins = <<ArgObj(ClsA), ArgStr(<<"mixA">>)>>
    /\ last.plugins = <<PluginsMixin>>
    /\ Len(Returned.mixins) = 1

\* the places of the mixins given to the last add_mixins that are new: not on
\* the receiver, and not given earlier in the same call
NewPlaces ==
    {i \in 1..Len(last.mixins) :
        /\ \A j \in 1..Len(Self.mixins) :
               Str(Self.mixins[j]) # Named(last.mixins[i], last.plugins)
        /\ \A h \in 1..(i - 1) :
               Named(last.mixins[h], last.plugins)
                   # Named(last.mixins[i], last.plugins)}

\* C5: add_mixins leaves its receiver as it was, whether it returns or
\* raises; the reference returned has the receiver's head, tail and cached
\* type, and its mixins followed by the new ones in the order given; it
\* raises, a TypeError, exactly when an argument is of no recognised type.
C5_AddMixinsLeavesReceiver ==
    last.op = "add_mixins" =>
        /\ cur = last.self
        /\ last.ok <=> (\A i \in 1..Len(last.mixins) : last.mixins[i] # ArgInt)
        /\ ~last.ok => (last.err = "TypeError" /\ last.ret = <<>>)
        /\ last.ok =>
            /\ Returned.head = Self.head
            /\ Returned.tail = Self.tail
            /\ Returned.type = Self.type
            /\ Len(Returned.mixins) = Len(Self.mixins) + Cardinality(NewPlaces)
            /\ SubSeq(Returned.mixins, 1, Len(Self.mixins)) = Self.mixins
            /\ \A i \in NewPlaces :
                   Str(Returned.mixins[Len(Self.mixins)
                           + Cardinality({h \in NewPlaces : h <= i})])
                       = Named(last.mixins[i], last.plugins)

C5_Witness ==
    /\ MixedOk
    /\ cur = last.self
    /\ Len(Self.mixins) = 1
    /\ Len(last.mixins) = 2
    /\ Cardinality(NewPlaces) = 1
    /\ Len(Returned.mixins) = 2

\* the object the interpreter holds at a rendered reference
Located(s) ==
    IF s = InMod(<<"T">>) THEN ClsT
    ELSE IF s = InMod(<<"A">>) THEN ClsA
    ELSE IF s = InMod(<<"B">>) THEN ClsB
    ELSE IF s = InMod(<<"M">>) THEN ClsM
    ELSE IF s = InMod(<<"f">>) THEN FunF
    ELSE IF s = InMod(<<"T", DOT, "a0">>) THEN InstA0
    ELSE IF s = <<"p", COLON, "m">> THEN ModPM
    ELSE None

RECURSIVE Conforms(_, _)
\* o is what the reference r stands for: the object at r when r has no
\* mixin, and else a class made at run time whose bases are what the mixins
\* of r stand for, in their order, and then the object at r
Conforms(o, r) ==
    IF r.mixins = <<>> THEN o = Located(Str(r)) /\ o # None
    ELSE /\ o.kind = "class"
         /\ o.serial > 0
         /\ Len(o.bases) = Len(r.mixins) + 1
         /\ \A i \in 1..Len(r.mixins) : Conforms(o.bases[i], r.mixins[i])
         /\ o.bases[Len(o.bases)] = Located(Str(r))
         /\ o.bases[Len(o.bases)] # None

\* C6: try_import of a reference with no mixin returns the attribute at the
\* end of its attribute path; with mixins it returns a class made by the
\* call, whose bases are the resolved mixins in their order and then the
\* target.
C6_ImportResolves ==
    [][(last'.op = "try_import" /\ last'.ok) =>
        /\ Conforms(last'.obj, last'.self[1])
        /\ last'.self[1].mixins # <<>> =>
            /\ last'.obj.serial \notin LiveSerials
            /\ last'.synths >= 1]_vars

C6_Witness ==
    /\ last.op = "try_import"
    /\ last.ok
    /\ Len(Self.mixins) = 2
    /\ Self.type = None
    /\ last.obj.bases = <<ClsB, ClsA, ClsT>>
    /\ last.obj.serial > 0

\* C7: try_import with an ensure other than Any, on a reference that
\* resolves to something neither an instance nor a subclass of it, fails
\* with an ImportError.
C7_MismatchIsImportError ==
    (/\ last.op = "try_import"
     /\ last.ensure # Any
     /\ try_import(Self, Any, {}).ok
     /\ ~isinstance(try_import(Self, Any, {}).obj, last.ensure)
     /\ ~(/\ try_import(Self, Any, {}).obj.kind = "class"
          /\ issubclass(try_import(Self, Any, {}).obj, last.ensure)))
    => (~last.ok /\ last.err = "ImportError")

\* the records of the group of the last from_alias, <<>> when there is none
GroupRecords ==
    IF last.group \in DOMAIN last.plugins[1]
    THEN last.plugins[1][last.group] ELSE <<>>

\* the places of the records named as the alias of the last from_alias
Matches == {i \in 1..Len(GroupRecords) : GroupRecords[i].name = last.alias}

\* C8: from_alias gives what parsing the alias itself gives when the group
\* is not in the table or holds no record named as the alias, and else what
\* parsing the value of the first such record gives.
C8_FromAliasFirstMatch ==
    last.op = "from_alias" =>
        /\ Matches = {} =>
               [ok |-> last.ok, err |-> last.err, ret |-> last.ret]
                   = FromStr(last.alias)
        /\ \A i \in Matches :
               (\A h \in Matches : i <= h) =>
                   [ok |-> last.ok, err |-> last.err, ret |-> last.ret]
                       = FromStr(GroupRecords[i].value)

C8_Witness ==
    /\ last.op = "from_alias"
    /\ Len(GroupRecords) = 2
    /\ Matches = {1, 2}
    /\ GroupRecords[1].value = InMod(<<"A">>)
    /\ GroupRecords[2].value = <<"p", COLON, "T">>
    /\ last.ok
    /\ Str(Returned) = InMod(<<"A">>)

\* C9: build of a live type, or of an entry point, returns a reference with
\* the module and the name of the object, the object cached as its type, so
\* that try_import returns the object and imports nothing.
C9_BuiltFromObjectIsCached ==
    (/\ last.op = "build"
     /\ last.name.t \in {"obj", "entry"}
     /\ last.name.o.kind = "class")
    => /\ last.ok
       /\ last.ret # <<>>
       /\ module(Returned) = last.name.o.module
       /\ value(Returned) = last.name.o.name
       /\ Returned.type = last.name.o
       /\ try_import(Returned, Any, {}).ok
       /\ try_import(Returned, Any, {}).obj = last.name.o
       /\ try_import(Returned, Any, {}).imports = 0

\* the ancestors of a class
Ancestors(c) == Members(Mro(c))

\* the places of the order of the last _calculate_minimal_mixins whose type
\* is not covered by the ancestors of a type visited before it
Kept ==
    {k \in 1..Len(last.order) :
        \A h \in 1..(k - 1) :
            ~(Ancestors(last.order[k]) \subseteq Ancestors(last.order[h]))}

\* C10: _calculate_minimal_mixins visits the resolved mixins longest
\* ancestor chain first, keeps a type exactly when its ancestors are not
\* covered by those of a type kept before, and returns a reference for each
\* type kept: every resolved mixin is an ancestor of a type kept, and no type
\* kept is an ancestor of another.
C10_MinimalMixins ==
    (last.op = "minimal" /\ last.ok) =>
        /\ Len(last.resolved) = Len(Self.mixins)
        /\ Len(last.order) = Len(last.resolved)
        /\ \A x \in Members(last.resolved) :
               Cardinality({i \in 1..Len(last.order) : last.order[i] = x})
                   = Cardinality({i \in 1..Len(last.resolved) :
                                     last.resolved[i] = x})
        /\ \A i, j \in 1..Len(last.order) :
               i < j => Len(Mro(last.order[i])) >= Len(Mro(last.order[j]))
        /\ Len(last.chosen) = Cardinality(Kept)
        /\ \A k \in Kept :
               last.chosen[Cardinality({h \in Kept : h <= k})] = last.order[k]
        /\ Len(last.refs) = Len(last.chosen)
        /\ \A i \in 1..Len(last.refs) :
               /\ last.refs[i].type = last.chosen[i]
               /\ Str(last.refs[i])
                      = last.chosen[i].module \o <<COLON>> \o last.chosen[i].name
        /\ \A x \in Members(last.resolved) :
               \E c \in Members(last.chosen) : x \in Ancestors(c)
        /\ \A i, j \in 1..Len(last.chosen) :
               i # j => last.chosen[i] \notin Ancestors(last.chosen[j])

C10_Witness ==
    /\ last.op = "minimal"
    /\ last.ok
    /\ last.resolved = <<ClsA, ClsB>>
    /\ last.order = <<ClsB, ClsA>>
    /\ last.chosen = <<ClsB>>
    /\ Len(last.refs) = 1

\* the places of the arguments of the last add_mixins that are names of a
\* record of the group "mixins" of the plugin table it was given
AliasPlaces ==
    {i \in 1..Len(last.mixins) :
        /\ last.mixins[i].t = "str"
        /\ last.plugins # <<>>
        /\ <<"mixins">> \in DOMAIN last.plugins[1]
        /\ \E k \in 1..Len(last.plugins[1][<<"mixins">>]) :
               last.plugins[1][<<"mixins">>][k].name = last.mixins[i].s}

\* the value of the first record of the group "mixins" that has the name
MixinsValue(n) ==
    LET found == SelectSeq(last.plugins[1][<<"mixins">>],
                           LAMBDA x : x.name = n)
    IN  found[1].value

\* C11: when add_mixins is given a name n of a record (n, v) of the group
\* "mixins" of its plugin table, the reference it returns has the reference
\* parsed from v among its mixins, and none parsed from n itself that the
\* receiver did not have; to_aliases on that reference, with a group other
\* than "mixins", returns and has n among the aliases of the mixins.
C11_MixinAliasRoundTrip ==
    (last.op \in {"add_mixins", "to_aliases"} /\ last.ret # <<>>) =>
        \A i \in AliasPlaces :
            /\ \E j \in 1..Len(Returned.mixins) :
                   RefEq(Returned.mixins[j],
                         FromStr(MixinsValue(last.mixins[i].s)).ret[1])
            /\ \A j \in 1..Len(Returned.mixins) :
                   RefEq(Returned.mixins[j], FromStr(last.mixins[i].s).ret[1])
                       => \E h \in 1..Len(Self.mixins) :
                              RefEq(Self.mixins[h], Returned.mixins[j])
            /\ (last.op = "to_aliases" /\ last.group # <<"mixins">>) =>
                   /\ last.ok
                   /\ \E j \in 1..Len(last.aliases) :
                          last.aliases[j] = last.mixins[i].s

\* the keys name the last parameters of the function, those with the prefix
\* or the suffix apart
Fits(params, keys) ==
    /\ Len(keys) + 2 <= Len(params)
    /\ \A i \in Compared(params, keys) :
           params[Len(params) + 1 - i] = keys[Len(keys) + 1 - i]

\* C12: prepare_expansion, given keys that fit the function's signature,
\* returns; the action it leaves has exactly one expander around the function,
\* and the function's declared keys are the keys given followed by those it
\* had. A call of an action that was prepared, in a state that has its keys,
\* calls the function once, with the call arguments followed by the expansion
\* of each declared key in order.
C12_ExpansionIdempotent ==
    /\ (/\ last.op = "prepare_expansion"
        /\ Fits(last.self[1].params, last.mixins \o last.self[1].keys)) =>
            /\ last.ok
            /\ cur.wrappers = 1
            /\ cur.keys = last.mixins \o last.self[1].keys
    /\ (/\ last.op = "call"
        /\ has_annotations(cur, KEYS_HANDLED)
        /\ \A i \in 1..Len(cur.keys) : cur.keys[i] \in last.name) =>
            /\ last.ok
            /\ last.ret = <<last.mixins \o
                   [i \in 1..Len(cur.keys) |-> Expanded(cur.keys[i])]>>

\* C13: a call of a cached method right after a call of the same method runs
\* no body and returns what that call returned; a call of a cached method
\* right after the invalidating method runs the body once and returns the
\* value computed on the object as it is, never a value kept from before nor
\* None.
C13_CacheInvalidated ==
    [][last'.op = "cached" =>
        /\ (last.op = "cached" /\ last.name = last'.name) =>
               (last'.imports = 0 /\ last'.ret = last.ret)
        /\ last.op = "invalidate" =>
               (last'.imports = 1 /\ last'.ret = Body(cur))]_vars

=============================================================================
